---------------------------- MODULE Spec2Model ----------------------------
(***************************************************************************)
(* A model of the tinyurl backend (backend/src/app.py, utils.py,           *)
(* db/orm.py): the URL normaliser, the slug generator, and the request     *)
(* handlers of the Flask application running concurrently against one      *)
(* PostgreSQL store.  Every store round trip (one select_one, select_all,  *)
(* insert or delete call, each on its own autocommit connection) is one    *)
(* atomic step; a handler is a sequence of such steps.                     *)
(*                                                                         *)
(* Strings are sequences of one-character strings, so that parsing,        *)
(* lower-casing, sorting and re-encoding are computed character by         *)
(* character as urllib.parse computes them.                                *)
(***************************************************************************)
EXTENDS Integers, Sequences, FiniteSets, TLC

(***************************************************************************)
(*                               Characters                                *)
(***************************************************************************)
LowerChars == <<"a","b","c","d","e","f","g","h","i","j","k","l","m",
                "n","o","p","q","r","s","t","u","v","w","x","y","z">>

UpperChars == <<"A","B","C","D","E","F","G","H","I","J","K","L","M",
                "N","O","P","Q","R","S","T","U","V","W","X","Y","Z">>

DigitChars == <<"0","1","2","3","4","5","6","7","8","9">>

HexChars == <<"0","1","2","3","4","5","6","7","8","9","A","B","C","D","E","F">>

\* The punctuation the model's URLs may contain, with its ASCII code.
PunctCodes ==
    << <<" ", 32>>, <<"#", 35>>, <<"%", 37>>, <<"&", 38>>, <<"+", 43>>,
       <<"-", 45>>, <<".", 46>>, <<"/", 47>>, <<":", 58>>, <<";", 59>>,
       <<"=", 61>>, <<"?", 63>>, <<"@", 64>>, <<"_", 95>>, <<"~", 126>> >>

Range(s) == {s[i] : i \in 1..Len(s)}

IndexOf(s, c) == CHOOSE i \in 1..Len(s) : s[i] = c

IsLower(c) == c \in Range(LowerChars)
IsUpper(c) == c \in Range(UpperChars)
IsDigit(c) == c \in Range(DigitChars)
IsAlpha(c) == IsLower(c) \/ IsUpper(c)

\* ord(c)
Ord(c) ==
    IF IsLower(c) THEN 96 + IndexOf(LowerChars, c)
    ELSE IF IsUpper(c) THEN 64 + IndexOf(UpperChars, c)
    ELSE IF IsDigit(c) THEN 47 + IndexOf(DigitChars, c)
    ELSE (CHOOSE p \in Range(PunctCodes) : p[1] = c)[2]

KnownCodes ==
    (97..122) \cup (65..90) \cup (48..57) \cup {p[2] : p \in Range(PunctCodes)}

\* chr(n), for the codes of the model's characters
Chr(n) ==
    IF n \in 97..122 THEN LowerChars[n - 96]
    ELSE IF n \in 65..90 THEN UpperChars[n - 64]
    ELSE IF n \in 48..57 THEN DigitChars[n - 47]
    ELSE (CHOOSE p \in Range(PunctCodes) : p[2] = n)[1]

\* str.lower() on one character
LowerChar(c) == IF IsUpper(c) THEN LowerChars[IndexOf(UpperChars, c)] ELSE c

\* str.lower()
Lower(s) == [i \in 1..Len(s) |-> LowerChar(s[i])]

(***************************************************************************)
(*                          String primitives                              *)
(***************************************************************************)
SetMin(S) == CHOOSE x \in S : \A y \in S : x <= y
SetMax(S) == CHOOSE x \in S : \A y \in S : y <= x

\* s[a..b] as a sequence (empty when a > b)
Slice(s, a, b) == IF a > b THEN <<>> ELSE SubSeq(s, a, b)

\* str.find(c, from): first index >= from holding c, 0 when there is none
Find(s, c, from) ==
    LET I == {i \in from..Len(s) : s[i] = c}
    IN  IF I = {} THEN 0 ELSE SetMin(I)

\* str.rfind(c): last index holding c, 0 when there is none
RFind(s, c) ==
    LET I == {i \in 1..Len(s) : s[i] = c}
    IN  IF I = {} THEN 0 ELSE SetMax(I)

\* str.lstrip(chars): drop the leading characters that belong to chars
LStrip(s, chars) ==
    LET I == {i \in 1..Len(s) : s[i] \notin chars}
    IN  IF I = {} THEN <<>> ELSE Slice(s, SetMin(I), Len(s))

\* str.split(sep): the pieces between the occurrences of one character
RECURSIVE Split(_, _)
Split(s, sep) ==
    LET i == Find(s, sep, 1)
    IN  IF i = 0 THEN <<s>>
        ELSE <<Slice(s, 1, i - 1)>> \o Split(Slice(s, i + 1, Len(s)), sep)

\* Lexicographic order of Python strings (by code point): s < t
RECURSIVE StrLess(_, _)
StrLess(s, t) ==
    IF t = <<>> THEN FALSE
    ELSE IF s = <<>> THEN TRUE
    ELSE IF Ord(s[1]) # Ord(t[1]) THEN Ord(s[1]) < Ord(t[1])
    ELSE StrLess(Tail(s), Tail(t))

\* Order of Python tuples (key, value): p < q
PairLess(p, q) ==
    \/ StrLess(p[1], q[1])
    \/ p[1] = q[1] /\ StrLess(p[2], q[2])

\* sep.join(parts)
RECURSIVE Join(_, _)
Join(parts, sep) ==
    IF parts = <<>> THEN <<>>
    ELSE IF Len(parts) = 1 THEN parts[1]
    ELSE parts[1] \o <<sep>> \o Join(Tail(parts), sep)


(***************************************************************************)
(*          urllib.parse: urlsplit, urlparse, urlunparse, the query        *)
(***************************************************************************)
\* urllib.parse.scheme_chars
SchemeChars ==
    Range(LowerChars) \cup Range(UpperChars) \cup Range(DigitChars) \cup {"+", "-", "."}

\* The schemes of urllib.parse.uses_params that the model's URLs can carry
\* ('' is the scheme-less case).
UsesParams ==
    { <<>>, <<"f","t","p">>, <<"h","t","t","p">>, <<"h","t","t","p","s">> }

\* urlsplit, first step: <<scheme, rest>>.  A prefix up to the first ':' is
\* the scheme when it starts with a letter and holds scheme characters
\* only; the scheme is lower-cased.
SplitScheme(url, i) ==
    IF /\ i > 1
       /\ IsAlpha(url[1])
       /\ \A k \in 1..(i - 1) : url[k] \in SchemeChars
    THEN <<Lower(Slice(url, 1, i - 1)), Slice(url, i + 1, Len(url))>>
    ELSE << <<>>, url >>

\* _splitnetloc(url, 2): the index of the first of '/', '?', '#' after the
\* leading '//', or one past the end
NetlocEnd(url) ==
    LET delims == {k \in 3..Len(url) : url[k] \in {"/", "?", "#"}}
    IN  IF delims = {} THEN Len(url) + 1 ELSE SetMin(delims)

\* urlsplit, second step: <<netloc, rest>> of what follows the scheme
SplitNetloc(url) ==
    IF Len(url) >= 2 /\ url[1] = "/" /\ url[2] = "/"
    THEN <<Slice(url, 3, NetlocEnd(url) - 1), Slice(url, NetlocEnd(url), Len(url))>>
    ELSE << <<>>, url >>

\* url.split(c, 1) when c is in url: <<before, after>>; else <<url, ''>>
SplitAt(url, i) ==
    IF i > 0 THEN <<Slice(url, 1, i - 1), Slice(url, i + 1, Len(url))>>
    ELSE <<url, <<>> >>

SplitOnce(url, c) == SplitAt(url, Find(url, c, 1))

\* The result of urlsplit: the fragment is split off first, then the query.
SplitResult(scheme, netloc, pathQuery, fragment) ==
    [scheme |-> scheme, netloc |-> netloc, path |-> pathQuery[1],
     query |-> pathQuery[2], fragment |-> fragment]

SplitRest(scheme, netloc, urlFragment) ==
    SplitResult(scheme, netloc, SplitOnce(urlFragment[1], "?"), urlFragment[2])

SplitAfterScheme(scheme, netlocRest) ==
    SplitRest(scheme, netlocRest[1], SplitOnce(netlocRest[2], "#"))

SplitFromScheme(schemeRest) ==
    SplitAfterScheme(schemeRest[1], SplitNetloc(schemeRest[2]))

SplitStripped(url) == SplitFromScheme(SplitScheme(url, Find(url, ":", 1)))

\* urlsplit(url): scheme, netloc, path, query, fragment (leading spaces are
\* stripped first)
urlsplit(raw) == SplitStripped(LStrip(raw, {" "}))

\* _splitparams(url): <<url, params>>, split at the first ';' of the last
\* path segment
SplitParamsAt(url, slash) ==
    SplitAt(url, IF slash > 0 THEN Find(url, ";", slash) ELSE Find(url, ";", 1))

splitparams(url) == SplitParamsAt(url, RFind(url, "/"))

ParseResult(r, pathParams) ==
    [scheme |-> r.scheme, netloc |-> r.netloc, path |-> pathParams[1],
     params |-> pathParams[2], query |-> r.query, fragment |-> r.fragment]

WithParams(r) ==
    ParseResult(r, IF r.scheme \in UsesParams /\ Find(r.path, ";", 1) > 0
                   THEN splitparams(r.path)
                   ELSE <<r.path, <<>> >>)

\* urlparse(url): urlsplit plus the params of the last path segment
urlparse(raw) == WithParams(urlsplit(raw))

\* urlunsplit, for the non-empty netloc normalize_url always passes
AddFragment(url, fragment) ==
    IF fragment # <<>> THEN url \o <<"#">> \o fragment ELSE url

AddQuery(url, query) ==
    IF query # <<>> THEN url \o <<"?">> \o query ELSE url

AddScheme(scheme, url) ==
    IF scheme # <<>> THEN scheme \o <<":">> \o url ELSE url

AddNetloc(netloc, url) ==
    IF netloc # <<>>
    THEN <<"/", "/">> \o netloc \o
         (IF url # <<>> /\ url[1] # "/" THEN <<"/">> \o url ELSE url)
    ELSE url

AddParams(path, params) ==
    IF params # <<>> THEN path \o <<";">> \o params ELSE path

\* urlunparse((scheme, netloc, url, params, query, fragment))
urlunparse(scheme, netloc, path, params, query, fragment) ==
    AddFragment(AddQuery(AddScheme(scheme, AddNetloc(netloc, AddParams(path, params))),
                         query),
                fragment)

IsHex(c) == c \in Range(HexChars) \cup {"a", "b", "c", "d", "e", "f"}

HexVal(c) ==
    IF c \in Range(HexChars) THEN IndexOf(HexChars, c) - 1
    ELSE 9 + IndexOf(LowerChars, c)

\* unquote(s): %XX becomes the character of that code; anything else stays.
\* (Escapes of codes outside the model's characters are left as they are.)
RECURSIVE unquote(_)
unquote(s) ==
    IF s = <<>> THEN <<>>
    ELSE IF /\ s[1] = "%"
            /\ Len(s) >= 3
            /\ IsHex(s[2]) /\ IsHex(s[3])
            /\ (16 * HexVal(s[2]) + HexVal(s[3])) \in KnownCodes
         THEN <<Chr(16 * HexVal(s[2]) + HexVal(s[3]))>> \o unquote(Slice(s, 4, Len(s)))
         ELSE <<s[1]>> \o unquote(Tail(s))

\* s.replace('+', ' ')
PlusToSpace(s) == [i \in 1..Len(s) |-> IF s[i] = "+" THEN " " ELSE s[i]]

\* quote_plus on one character: unreserved characters stay, the space becomes
\* '+', anything else becomes %XX
QuoteChar(c) ==
    IF IsAlpha(c) \/ IsDigit(c) \/ c \in {"_", ".", "-", "~"} THEN <<c>>
    ELSE IF c = " " THEN <<"+">>
    ELSE <<"%", HexChars[(Ord(c) \div 16) + 1], HexChars[(Ord(c) % 16) + 1]>>

RECURSIVE quote_plus(_)
quote_plus(s) ==
    IF s = <<>> THEN <<>> ELSE QuoteChar(s[1]) \o quote_plus(Tail(s))

\* One field of parse_qsl(qs, keep_blank_values=True): name=value split at
\* the first '=', a name with no '=' gets the blank value; both are unquoted
UnquotePair(nv) == <<unquote(PlusToSpace(nv[1])), unquote(PlusToSpace(nv[2]))>>

ParseField(nameValue) == UnquotePair(SplitOnce(nameValue, "="))

NonEmptyFields(fields) == SelectSeq(fields, LAMBDA f : f # <<>>)

ParseFields(kept) == [i \in 1..Len(kept) |-> ParseField(kept[i])]

\* parse_qsl(qs, keep_blank_values=True): the fields between '&', empty
\* fields skipped
parse_qsl(qs) ==
    ParseFields(NonEmptyFields(IF qs = <<>> THEN <<>> ELSE Split(qs, "&")))

\* list.sort() on (key, value) tuples: insertion into a sorted list
RECURSIVE InsertSorted(_, _)
InsertSorted(p, sorted) ==
    IF sorted = <<>> THEN <<p>>
    ELSE IF PairLess(sorted[1], p) THEN <<sorted[1]>> \o InsertSorted(p, Tail(sorted))
    ELSE <<p>> \o sorted

RECURSIVE SortPairs(_)
SortPairs(pairs) ==
    IF pairs = <<>> THEN <<>>
    ELSE InsertSorted(pairs[1], SortPairs(Tail(pairs)))

\* urlencode(pairs, doseq=True) for string values
urlencode(pairs) ==
    Join([i \in 1..Len(pairs) |->
            quote_plus(pairs[i][1]) \o <<"=">> \o quote_plus(pairs[i][2])], "&")

(***************************************************************************)
(*                              utils.py                                   *)
(***************************************************************************)
\* Mutant: the query pairs are not sorted.
order_query_Unsorted(query) == urlencode(parse_qsl(query))

\* order_query(query)
order_query(query) == urlencode(SortPairs(parse_qsl(query)))

\* if not parsed.netloc: raise ValueError("Malformed URL.")
CheckNetloc(parsed) == [raised |-> parsed.netloc = <<>>, parsed |-> parsed]

\* if not parsed.scheme: validated_url = "http://" + validated_url.lstrip("://")
ValidatedUrl(raw_url, parsed) ==
    IF parsed.scheme = <<>>
    THEN <<"h","t","t","p",":","/","/">> \o LStrip(raw_url, {":", "/"})
    ELSE raw_url

\* parse_url(raw_url): the parse, or raised = TRUE for ValueError
parse_url(raw_url) == CheckNetloc(urlparse(ValidatedUrl(raw_url, urlparse(raw_url))))

\* Mutant: the netloc is not lower-cased.
CanonicalNetloc_AsGiven(netloc) == netloc

\* netloc = parsed_url.netloc.lower()
CanonicalNetloc(netloc) == Lower(netloc)

\* path = parsed_url.path or "/"
CanonicalPath(path) == IF path = <<>> THEN <<"/">> ELSE path

\* The body of normalize_url, given the outcome of parse_url
Canonical(r) ==
    IF r.raised THEN [raised |-> TRUE, value |-> <<>>]
    ELSE [raised |-> FALSE,
          value |-> urlunparse(r.parsed.scheme,
                               CanonicalNetloc(r.parsed.netloc),
                               CanonicalPath(r.parsed.path),
                               r.parsed.params,
                               order_query(r.parsed.query),
                               r.parsed.fragment)]

\* normalize_url(url): the canonical string, or raised = TRUE for the
\* ValueError of parse_url
normalize_url(url) == Canonical(parse_url(url))

\* BASE36_ALPHABET = string.ascii_lowercase + string.digits
BASE36_ALPHABET == LowerChars \o DigitChars

\* The length of a slug in the model (the code's default is length = 8).
SlugLength == 2

\* The symbols a slug is drawn from in the model: the first two of
\* BASE36_ALPHABET, so that the slug space is small enough for two seeds to
\* collide and for a probe chain to be followed to its end.
SlugSymbols == SubSeq(BASE36_ALPHABET, 1, 2)

\* rd.seed(url): the generator's state is a function of the seed string
\* alone (a polynomial hash stands for the hash of the seed).
RECURSIVE SeedState(_, _)
SeedState(url, h) ==
    IF url = <<>> THEN h
    ELSE SeedState(Tail(url), (31 * h + Ord(url[1])) % 251)

\* The generator's next state.
NextState(st) == (17 * st + 43) % 251

\* rd.choice(symbols) for _ in range(length): one symbol per draw, each draw
\* advancing the generator
RECURSIVE Draw(_, _)
Draw(st, length) ==
    IF length = 0 THEN <<>>
    ELSE <<SlugSymbols[(st % Len(SlugSymbols)) + 1]>> \o Draw(NextState(st), length - 1)

\* generate_random_slug(url, length=8): deterministic in url
generate_random_slug(url) == Draw(SeedState(url, 7), SlugLength)

(***************************************************************************)
(*                     Bounds and inputs of the model                      *)
(***************************************************************************)
\* The clock runs over 0..MaxTime.
MaxTime == 2

\* At most MaxId rows are ever inserted into urls (ids 1..MaxId).
MaxId == 2

\* At most MaxLogs rows are ever inserted into access_logs.
MaxLogs == 2

\* The concurrent request handlers.
Procs == {"p1", "p2"}

\* Python's None, a SQL NULL, an absent row: the empty sequence; a present
\* value x is <<x>>.
None == <<>>
Some(x) == <<x>>

\* The raw URLs clients submit.  U1 and U2 differ only in host case and
\* query-parameter order; U3 has another canonical form and seeds the same
\* first slug as U1; U4 has no host.
U1 == <<"A","?","b","&","a">>
U2 == <<"a","?","a","&","b">>
U3 == <<"q">>
U4 == <<"?","a">>
RawUrls == {U1, U2, U3, U4}

\* The request bodies of POST /urls: url, and expiry_date when the key is
\* present (null, or an instant).  U1 comes with an instant, U2 with null,
\* U3 with either; the host-less URL and the body without the key are
\* submitted in one form each.
Instants == 1..(MaxTime - 1)

Bodies ==
    [url : {U1, U3}, has_expiry : {TRUE}, expiry_date : {Some(t) : t \in Instants}]
    \cup [url : {U2, U3, U4}, has_expiry : {TRUE}, expiry_date : {None}]
    \cup {[url |-> U3, has_expiry |-> FALSE, expiry_date |-> None]}

\* The slugs clients ask for: every first candidate and every first reseed
\* of the raw URLs.
SlugInputs ==
    {generate_random_slug(u) : u \in RawUrls}
    \cup {generate_random_slug(u \o generate_random_slug(u)) : u \in RawUrls}

(***************************************************************************)
(*                                 State                                   *)
(***************************************************************************)
VARIABLES
    urls,         \* table urls: rows [id, slug, normalized_url, created_at, expires_at]
    access_logs,  \* table access_logs, in insertion order: rows [url_id, accessed_at]
    next_id,      \* the id the next row of urls gets
    now,          \* the clock: NOW() and pendulum.now()
    on_delete,    \* what the schema does with the access_logs of a deleted url
    pc,           \* where each handler stands
    req,          \* the request each handler serves
    loc,          \* the handler's local variables
    resp,         \* the response the last step sent, if it sent one
    hits,         \* history: per url id, the redirects answered for its row
    deleted_slugs \* history: the slugs of the rows delete_url has removed

vars == <<urls, access_logs, next_id, now, on_delete, pc, req, loc, resp, hits,
          deleted_slugs>>

\* HTTPStatus
OK == 200
CREATED == 201
FOUND == 302
BAD_REQUEST == 400
NOT_FOUND == 404
GONE == 410
INTERNAL_SERVER_ERROR == 500

NoRequest == [op |-> "none", body |-> [url |-> <<>>, has_expiry |-> FALSE, expiry_date |-> None],
              slug |-> <<>>]

NewUrlRequest(body) == [op |-> "new_url", body |-> body, slug |-> <<>>]

SlugRequest(op, slug) == [NoRequest EXCEPT !.op = op, !.slug = slug]

NoLocals == [slug |-> <<>>, normalized_url |-> <<>>, tinyurl |-> None]

\* A response: the handler that sent it and its request, the status, and
\* of the JSON body or the headers what the handler puts there (slug: the
\* slug url and links are built from; location: the redirect's target;
\* tinyurl: the row reported; rows: the listed rows).
NoResponse ==
    [proc |-> "none", req |-> NoRequest, status |-> 0, slug |-> <<>>,
     location |-> <<>>, tinyurl |-> None, deleted |-> FALSE,
     accessed_at |-> <<>>, rows |-> {}]

Response(status) == [NoResponse EXCEPT !.status = status]

(***************************************************************************)
(*                    The store: db/orm.py and the schema                  *)
(***************************************************************************)
\* Mutant: the dedup lookup passes over rows that have expired.
SelectByNormalizedUrl_Unexpired(rows, u) ==
    IF \E r \in rows : r.normalized_url = u /\ (r.expires_at = None \/ r.expires_at[1] >= now)
    THEN Some(CHOOSE r \in rows :
                 r.normalized_url = u /\ (r.expires_at = None \/ r.expires_at[1] >= now))
    ELSE None

\* select_one("SELECT ... FROM urls WHERE normalized_url = %s", u)
SelectByNormalizedUrl(rows, u) ==
    IF \E r \in rows : r.normalized_url = u
    THEN Some(CHOOSE r \in rows : r.normalized_url = u)
    ELSE None

\* select_one("SELECT ... FROM urls WHERE slug = %s", slug)
SelectBySlug(rows, slug) ==
    IF \E r \in rows : r.slug = slug
    THEN Some(CHOOSE r \in rows : r.slug = slug)
    ELSE None

\* Mutant: the schema without UNIQUE on normalized_url.
UniqueViolation_SlugOnly(rows, slug, normalized_url) ==
    \E r \in rows : r.slug = slug

\* Mutant: the schema without UNIQUE on slug.
UniqueViolation_UrlOnly(rows, slug, normalized_url) ==
    \E r \in rows : r.normalized_url = normalized_url

\* The schema's constraints on urls: slug UNIQUE, normalized_url UNIQUE.
\* TRUE when inserting the row would violate one of them.
UniqueViolation(rows, slug, normalized_url) ==
    \E r \in rows : r.slug = slug \/ r.normalized_url = normalized_url

\* Mutant: the schema without the reference from access_logs to urls.
ForeignKeyViolation_None(rows, policy, url_id) == FALSE

\* The schema's access_logs.url_id REFERENCES urls.id, when the schema
\* enforces it: TRUE when a log row for url_id has no url to refer to.
ForeignKeyViolation(rows, policy, url_id) ==
    policy = "cascade" /\ ~ \E r \in rows : r.id = url_id

\* What is left of access_logs once the urls rows of the ids in gone are
\* deleted: the schema either cascades (the reading under which both the
\* reference and the repository's test, which deletes a url that has been
\* accessed, hold) or keeps the logs.
LogsAfterDelete(logs, policy, gone) ==
    IF policy = "cascade"
    THEN SelectSeq(logs, LAMBDA l : l.url_id \notin gone)
    ELSE logs

\* Mutant: the accesses of every url up to this one are selected.
SelectAccesses_UpTo(logs, url_id) ==
    LET mine == SelectSeq(logs, LAMBDA l : l.url_id <= url_id)
    IN  [i \in 1..Len(mine) |-> mine[i].accessed_at]

\* Mutant: the accesses are selected without the WHERE clause.
SelectAccesses_All(logs, url_id) == [i \in 1..Len(logs) |-> logs[i].accessed_at]

\* select_all("SELECT accessed_at FROM access_logs WHERE url_id = %s", id)
SelectAccesses(logs, url_id) ==
    LET mine == SelectSeq(logs, LAMBDA l : l.url_id = url_id)
    IN  [i \in 1..Len(mine) |-> mine[i].accessed_at]

(***************************************************************************)
(*                               Init                                      *)
(***************************************************************************)
Init ==
    /\ urls = {}
    /\ access_logs = <<>>
    /\ next_id = 1
    /\ now = 0
    /\ on_delete = "cascade"
    /\ pc = [p \in Procs |-> "idle"]
    /\ req = [p \in Procs |-> NoRequest]
    /\ loc = [p \in Procs |-> NoLocals]
    /\ resp = NoResponse
    /\ hits = [i \in 1..MaxId |-> 0]
    /\ deleted_slugs = {}

\* The handler returns: its response is sent and it is free again.
Return(p, r) ==
    /\ pc' = [pc EXCEPT ![p] = "idle"]
    /\ req' = [req EXCEPT ![p] = NoRequest]
    /\ loc' = [loc EXCEPT ![p] = NoLocals]
    /\ resp' = [r EXCEPT !.proc = p, !.req = req[p]]

\* The handler goes on to its next store round trip.
Goto(p, label, l) ==
    /\ pc' = [pc EXCEPT ![p] = label]
    /\ loc' = [loc EXCEPT ![p] = l]
    /\ resp' = NoResponse
    /\ UNCHANGED req

\* A request arrives at a free handler.
Accept(p, r, label) ==
    /\ pc[p] = "idle"
    /\ req' = [req EXCEPT ![p] = r]
    /\ pc' = [pc EXCEPT ![p] = label]
    /\ resp' = NoResponse
    /\ UNCHANGED <<urls, access_logs, next_id, now, on_delete, loc, hits, deleted_slugs>>

InNewUrl(p) == pc[p] \in {"new_url", "new_url_probe", "new_url_insert"}

InRedirect(p) == pc[p] \in {"redirect", "redirect_check", "redirect_insert"}

(***************************************************************************)
(*                    A request arrives at a free handler                  *)
(***************************************************************************)
\* POST /urls.  (Every new_url in flight may take an id, so requests are
\* admitted while ids are left.)
StartNewUrl(p) ==
    /\ next_id + Cardinality({q \in Procs : InNewUrl(q)}) <= MaxId
    /\ \E body \in Bodies : Accept(p, NewUrlRequest(body), "new_url")

\* GET /urls/<slug>, DELETE /urls/<slug>
StartSlugRequest(p) ==
    \E op \in {"get_url_stats", "delete_url"}, slug \in SlugInputs :
        Accept(p, SlugRequest(op, slug), op)

\* GET /<slug>.  (Every redirect in flight may write a log row, so
\* redirects are admitted while rows are left.)
StartRedirect(p) ==
    /\ Len(access_logs) + Cardinality({q \in Procs : InRedirect(q)}) < MaxLogs
    /\ \E slug \in SlugInputs : Accept(p, SlugRequest("redirect", slug), "redirect")

\* GET /urls
StartGetUrls(p) == Accept(p, SlugRequest("get_urls", <<>>), "get_urls")

(***************************************************************************)
(*                          new_url: POST /urls                            *)
(***************************************************************************)
\* The response of new_url for a slug: url and links are built from it.
NewUrlResponse(status, slug) == [Response(status) EXCEPT !.slug = slug]

\* What new_url does with the row the dedup lookup found: it answers 200
\* with that row's slug.
NewUrlExisting(existing_tinyurl) == NewUrlResponse(OK, existing_tinyurl.slug)

\* Mutant: a duplicate new_url overwrites the expires_at of the row it found.
NewUrlDedup_Updating(p) ==
    /\ pc[p] = "new_url"
    /\ LET body == req[p].body
           n == normalize_url(body.url)
           existing_tinyurl == SelectByNormalizedUrl(urls, n.value)
       IN  IF ~body.has_expiry \/ n.raised
           THEN Return(p, Response(INTERNAL_SERVER_ERROR)) /\ UNCHANGED urls
           ELSE IF existing_tinyurl # None
           THEN /\ Return(p, NewUrlExisting(existing_tinyurl[1]))
                /\ urls' = (urls \ {existing_tinyurl[1]})
                              \cup {[existing_tinyurl[1] EXCEPT !.expires_at = body.expiry_date]}
           ELSE /\ Goto(p, "new_url_probe",
                        [NoLocals EXCEPT !.slug = generate_random_slug(body.url),
                                         !.normalized_url = n.value])
                /\ UNCHANGED urls
    /\ UNCHANGED <<access_logs, next_id, now, on_delete, hits, deleted_slugs>>

\* body["url"], body["expiry_date"], normalize_url, and the dedup lookup:
\* a missing key (KeyError) or a malformed URL (ValueError) ends in the
\* handler's except clause, a found row in the 200 answer; otherwise the
\* first candidate slug is generated.
NewUrlDedup(p) ==
    /\ pc[p] = "new_url"
    /\ LET body == req[p].body
           n == normalize_url(body.url)
           existing_tinyurl == SelectByNormalizedUrl(urls, n.value)
       IN  IF ~body.has_expiry \/ n.raised
           THEN Return(p, Response(INTERNAL_SERVER_ERROR))
           ELSE IF existing_tinyurl # None
           THEN Return(p, NewUrlExisting(existing_tinyurl[1]))
           ELSE Goto(p, "new_url_probe",
                     [NoLocals EXCEPT !.slug = generate_random_slug(body.url),
                                      !.normalized_url = n.value])
    /\ UNCHANGED <<urls, access_logs, next_id, now, on_delete, hits, deleted_slugs>>

\* while select_one("SELECT 1 AS ok FROM urls WHERE slug = %s", slug):
\*     slug = generate_random_slug(url + slug)
NewUrlProbe(p) ==
    /\ pc[p] = "new_url_probe"
    /\ IF SelectBySlug(urls, loc[p].slug) # None
       THEN Goto(p, "new_url_probe",
                 [loc[p] EXCEPT !.slug = generate_random_slug(req[p].body.url \o loc[p].slug)])
       ELSE Goto(p, "new_url_insert", loc[p])
    /\ UNCHANGED <<urls, access_logs, next_id, now, on_delete, hits, deleted_slugs>>

\* The row INSERT INTO urls (slug, normalized_url, created_at, expires_at)
\* VALUES (%s, %s, NOW(), %s) adds.
NewRow(id, slug, normalized_url, created_at, expires_at) ==
    [id |-> id, slug |-> slug, normalized_url |-> normalized_url,
     created_at |-> created_at, expires_at |-> expires_at]

\* What new_url does when its insert raises: the except clause answers 500.
NewUrlInsertFailed(p) == Response(INTERNAL_SERVER_ERROR)

\* insert(...), then 201; a constraint violation raises and ends in the
\* handler's except clause.
NewUrlInsert(p) ==
    /\ pc[p] = "new_url_insert"
    /\ IF UniqueViolation(urls, loc[p].slug, loc[p].normalized_url)
       THEN /\ Return(p, NewUrlInsertFailed(p))
            /\ UNCHANGED <<urls, next_id>>
       ELSE /\ urls' = urls \cup {NewRow(next_id, loc[p].slug, loc[p].normalized_url,
                                         now, req[p].body.expiry_date)}
            /\ next_id' = next_id + 1
            /\ Return(p, NewUrlResponse(CREATED, loc[p].slug))
    /\ UNCHANGED <<access_logs, now, on_delete, hits, deleted_slugs>>

(***************************************************************************)
(*                    get_url_stats: GET /urls/<slug>                      *)
(***************************************************************************)
\* select_one("SELECT * FROM urls WHERE slug = %s;", slug)
StatsSelect(p) ==
    /\ pc[p] = "get_url_stats"
    /\ LET tinyurl == SelectBySlug(urls, req[p].slug)
       IN  IF tinyurl # None
           THEN Goto(p, "get_url_stats_logs", [NoLocals EXCEPT !.tinyurl = tinyurl])
           ELSE Return(p, Response(NOT_FOUND))
    /\ UNCHANGED <<urls, access_logs, next_id, now, on_delete, hits, deleted_slugs>>

\* select_all("SELECT accessed_at FROM access_logs WHERE url_id = %s;", id)
StatsLogs(p) ==
    /\ pc[p] = "get_url_stats_logs"
    /\ LET tinyurl == loc[p].tinyurl[1]
       IN  Return(p, [Response(OK) EXCEPT
                        !.slug = tinyurl.slug,
                        !.tinyurl = Some(tinyurl),
                        !.accessed_at = SelectAccesses(access_logs, tinyurl.id)])
    /\ UNCHANGED <<urls, access_logs, next_id, now, on_delete, hits, deleted_slugs>>

(***************************************************************************)
(*                          get_urls: GET /urls                            *)
(***************************************************************************)
\* select_all("SELECT * FROM urls")
GetUrls(p) ==
    /\ pc[p] = "get_urls"
    /\ Return(p, [Response(OK) EXCEPT !.rows = urls])
    /\ UNCHANGED <<urls, access_logs, next_id, now, on_delete, hits, deleted_slugs>>

(***************************************************************************)
(*                     delete_url: DELETE /urls/<slug>                     *)
(***************************************************************************)
\* select_one("SELECT slug, created_at, normalized_url FROM urls WHERE slug = %s;", slug)
DeleteSelect(p) ==
    /\ pc[p] = "delete_url"
    /\ LET tinyurl == SelectBySlug(urls, req[p].slug)
       IN  IF tinyurl # None
           THEN Goto(p, "delete_url_delete", [NoLocals EXCEPT !.tinyurl = tinyurl])
           ELSE Return(p, Response(NOT_FOUND))
    /\ UNCHANGED <<urls, access_logs, next_id, now, on_delete, hits, deleted_slugs>>

\* Mutant: the status message is compared with the wrong text.
DeleteResult_Never(removed) == FALSE

\* orm.delete: cur.statusmessage == "DELETE 1"
DeleteResult(removed) == Cardinality(removed) = 1

\* The status delete_url answers with after its DELETE statement.
DeleteStatus(delete_result) == OK

\* delete("DELETE from urls WHERE slug = %s", tinyurl["slug"]), then 200
\* with the row selected before and the statement's result
DeleteExec(p) ==
    /\ pc[p] = "delete_url_delete"
    /\ LET tinyurl == loc[p].tinyurl[1]
           removed == {r \in urls : r.slug = tinyurl.slug}
           delete_result == DeleteResult(removed)
       IN  /\ urls' = urls \ removed
           /\ access_logs' = LogsAfterDelete(access_logs, on_delete, {r.id : r \in removed})
           /\ deleted_slugs' = deleted_slugs \cup {r.slug : r \in removed}
           /\ Return(p, [Response(DeleteStatus(delete_result)) EXCEPT
                           !.slug = tinyurl.slug,
                           !.tinyurl = Some(tinyurl),
                           !.deleted = delete_result])
    /\ UNCHANGED <<next_id, now, on_delete, hits>>

(***************************************************************************)
(*                       redirect_url: GET /<slug>                         *)
(***************************************************************************)
\* select_one("SELECT id, normalized_url, expires_at FROM urls WHERE slug = %s;", slug)
RedirectSelect(p) ==
    /\ pc[p] = "redirect"
    /\ LET tinyurl == SelectBySlug(urls, req[p].slug)
       IN  IF tinyurl = None
           THEN Return(p, Response(NOT_FOUND))
           ELSE Goto(p, "redirect_check", [NoLocals EXCEPT !.tinyurl = tinyurl])
    /\ UNCHANGED <<urls, access_logs, next_id, now, on_delete, hits, deleted_slugs>>

\* Mutant: the expiry check never fires.
Expired_Never(expires_at, t) == FALSE

\* Mutant: the expiry check also fires at the instant of expiry.
Expired_AtOrAfter(expires_at, t) == expires_at # None /\ expires_at[1] <= t

\* tinyurl["expires_at"] and tinyurl["expires_at"] < pendulum.now()
Expired(expires_at, t) == expires_at # None /\ expires_at[1] < t

RedirectCheck(p) ==
    /\ pc[p] = "redirect_check"
    /\ IF Expired(loc[p].tinyurl[1].expires_at, now)
       THEN Return(p, Response(GONE))
       ELSE Goto(p, "redirect_insert", loc[p])
    /\ UNCHANGED <<urls, access_logs, next_id, now, on_delete, hits, deleted_slugs>>

\* The access_logs rows INSERT INTO access_logs (url_id, accessed_at)
\* VALUES (%s, NOW()) adds for one redirect.
AccessRows(url_id, t) == <<[url_id |-> url_id, accessed_at |-> t]>>

\* insert(...), then redirect(tinyurl["normalized_url"]); a foreign-key
\* violation raises and ends in the handler's except clause.
RedirectInsert(p) ==
    /\ pc[p] = "redirect_insert"
    /\ LET tinyurl == loc[p].tinyurl[1]
       IN  IF ForeignKeyViolation(urls, on_delete, tinyurl.id)
           THEN /\ Return(p, Response(INTERNAL_SERVER_ERROR))
                /\ UNCHANGED <<access_logs, hits>>
           ELSE /\ access_logs' = access_logs \o AccessRows(tinyurl.id, now)
                /\ hits' = [hits EXCEPT ![tinyurl.id] = @ + 1]
                /\ Return(p, [Response(FOUND) EXCEPT
                                !.location = tinyurl.normalized_url,
                                !.tinyurl = Some(tinyurl)])
    /\ UNCHANGED <<urls, next_id, now, on_delete, deleted_slugs>>

(***************************************************************************)
(*                               The clock                                 *)
(***************************************************************************)
Tick ==
    /\ now < MaxTime
    /\ now' = now + 1
    /\ resp' = NoResponse
    /\ UNCHANGED <<urls, access_logs, next_id, on_delete, pc, req, loc, hits, deleted_slugs>>

Next ==
    \/ \E p \in Procs : StartNewUrl(p)
    \/ \E p \in Procs : StartSlugRequest(p)
    \/ \E p \in Procs : StartRedirect(p)
    \/ \E p \in Procs : StartGetUrls(p)
    \/ \E p \in Procs : NewUrlDedup(p)
    \/ \E p \in Procs : NewUrlProbe(p)
    \/ \E p \in Procs : NewUrlInsert(p)
    \/ \E p \in Procs : StatsSelect(p)
    \/ \E p \in Procs : StatsLogs(p)
    \/ \E p \in Procs : GetUrls(p)
    \/ \E p \in Procs : DeleteSelect(p)
    \/ \E p \in Procs : DeleteExec(p)
    \/ \E p \in Procs : RedirectSelect(p)
    \/ \E p \in Procs : RedirectCheck(p)
    \/ \E p \in Procs : RedirectInsert(p)
    \/ Tick

Spec == Init /\ [][Next]_vars

(***************************************************************************)
(*      new_url on its own, for URLs whose probe chains run into each      *)
(*      other                                                              *)
(***************************************************************************)
\* "ad" seeds the same first slug as U3 ("q"), and reseeding "ad" with that
\* slug gives the same slug again: the probe chain of "ad" is that one slug.
U5 == <<"a","d">>

ProbeBodies == [url : {U1, U3, U5}, has_expiry : {TRUE}, expiry_date : {None}]

\* POST /urls for one of these URLs
StartNewUrlOf(p) ==
    /\ next_id + Cardinality({q \in Procs : InNewUrl(q)}) <= MaxId
    /\ \E body \in ProbeBodies : Accept(p, NewUrlRequest(body), "new_url")

\* DELETE /urls/<slug> for the first slug of one of these URLs
StartDeleteOf(p) ==
    \E body \in ProbeBodies :
        Accept(p, SlugRequest("delete_url", generate_random_slug(body.url)), "delete_url")

NextProbe ==
    \/ \E p \in Procs : StartNewUrlOf(p)
    \/ \E p \in Procs : NewUrlDedup(p)
    \/ \E p \in Procs : NewUrlProbe(p)
    \/ \E p \in Procs : NewUrlInsert(p)
    \/ \E p \in Procs : DeleteSelect(p)
    \/ \E p \in Procs : DeleteExec(p)
    \/ \E p \in Procs : StartDeleteOf(p)

SpecProbe == Init /\ [][NextProbe]_vars

(***************************************************************************)
(*        normalize_url on its own, over URLs built from their parts       *)
(***************************************************************************)
\* The parts the URLs are built from: a scheme (left out, http or https), a
\* host in either letter case, a path (left out, "/" or "/p") and a list of
\* query pairs.
NormSchemes == {<<>>, <<"h","t","t","p">>, <<"h","t","t","p","s">>}
NormHosts == {<<"a">>, <<"A">>}
NormPaths == {<<>>, <<"/">>, <<"/","p">>}
PairX1 == <<<<"x">>, <<"1">>>>
PairX2 == <<<<"x">>, <<"2">>>>
PairY2 == <<<<"y">>, <<"2">>>>
NormQueries ==
    {<<>>, <<PairX1>>, <<PairX1, PairY2>>, <<PairY2, PairX1>>,
     <<PairX2, PairY2>>, <<PairY2, PairX2>>}

UrlParts == [scheme : NormSchemes, host : NormHosts, path : NormPaths, query : NormQueries]

\* The raw URL a client writes for the parts.
BuildUrl(c) ==
    (IF c.scheme = <<>> THEN <<>> ELSE c.scheme \o <<":","/","/">>)
    \o c.host \o c.path
    \o (IF c.query = <<>> THEN <<>>
        ELSE <<"?">> \o Join([i \in 1..Len(c.query) |->
                                 c.query[i][1] \o <<"=">> \o c.query[i][2]], "&"))

\* Two handlers are each given one URL to normalize.
InitNorm ==
    /\ urls = {}
    /\ access_logs = <<>>
    /\ next_id = 1
    /\ now = 0
    /\ on_delete = "cascade"
    /\ pc = [p \in Procs |-> "normalize"]
    /\ req \in [Procs -> {NewUrlRequest([url |-> BuildUrl(c), has_expiry |-> TRUE,
                                         expiry_date |-> None]) : c \in UrlParts}]
    /\ loc = [p \in Procs |-> NoLocals]
    /\ resp = NoResponse
    /\ hits = [i \in 1..MaxId |-> 0]
    /\ deleted_slugs = {}

\* normalized_url = normalize_url(url)
Normalize(p) ==
    /\ pc[p] = "normalize"
    /\ LET n == normalize_url(req[p].body.url)
       IN  Goto(p, IF n.raised THEN "normalize_raised" ELSE "normalized",
                [NoLocals EXCEPT !.normalized_url = n.value])
    /\ UNCHANGED <<urls, access_logs, next_id, now, on_delete, hits, deleted_slugs>>

NextNorm == \E p \in Procs : Normalize(p)

SpecNorm == InitNorm /\ [][NextNorm]_vars

\* One request at a time: a request arrives only when no handler is busy.
Quiet == \A p \in Procs : pc[p] = "idle"

NextSeq ==
    \/ \E p \in Procs : Quiet /\ StartNewUrl(p)
    \/ \E p \in Procs : Quiet /\ StartSlugRequest(p)
    \/ \E p \in Procs : Quiet /\ StartRedirect(p)
    \/ \E p \in Procs : Quiet /\ StartGetUrls(p)
    \/ \E p \in Procs : NewUrlDedup(p)
    \/ \E p \in Procs : NewUrlProbe(p)
    \/ \E p \in Procs : NewUrlInsert(p)
    \/ \E p \in Procs : StatsSelect(p)
    \/ \E p \in Procs : StatsLogs(p)
    \/ \E p \in Procs : GetUrls(p)
    \/ \E p \in Procs : DeleteSelect(p)
    \/ \E p \in Procs : DeleteExec(p)
    \/ \E p \in Procs : RedirectSelect(p)
    \/ \E p \in Procs : RedirectCheck(p)
    \/ \E p \in Procs : RedirectInsert(p)
    \/ Tick

SpecSeq == Init /\ [][NextSeq]_vars


(***************************************************************************)
(*                             Properties                                  *)
(***************************************************************************)
\* The canonical forms of the valid raw URLs, written out:
\* "http://a/?a=&b=" for U1 and U2, "http://q/" for U3.
Canon12 == <<"h","t","t","p",":","/","/","a","/","?","a","=","&","b","=">>
Canon3 == <<"h","t","t","p",":","/","/","q","/">>

\* The last step sent the response of a new_url whose body carries a URL
\* and an expiry_date key.
NewUrlAnswered == resp.req.op = "new_url" /\ resp.req.body.has_expiry

\* C1: in every reachable state, under every interleaving of the handlers,
\* no two rows of urls have the same normalized_url.
C1_CanonicalUrlUnique ==
    \A r1 \in urls, r2 \in urls : r1.normalized_url = r2.normalized_url => r1 = r2

\* C1's case: two new_url calls for the same canonical form both passed the
\* dedup lookup; one inserted its row, the other's insert has been refused.
C1_Witness ==
    /\ NewUrlAnswered
    /\ resp.req.body.url \in {U1, U2}
    /\ resp.status = INTERNAL_SERVER_ERROR
    /\ \E r \in urls : r.normalized_url = Canon12

\* C2: in every reachable state, also after two new_url calls probed the
\* same candidate slug as free before either inserted, no two rows of urls
\* have the same slug.
C2_SlugUnique ==
    \A r1 \in urls, r2 \in urls : r1.slug = r2.slug => r1 = r2

\* C2's case: U1's row holds the slug that is also U3's first candidate, and
\* the insert of a new_url for U3, which had probed that slug as free, has
\* been refused.
C2_Witness ==
    /\ NewUrlAnswered
    /\ resp.req.body.url = U3
    /\ resp.status = INTERNAL_SERVER_ERROR
    /\ \E r \in urls : r.slug = generate_random_slug(U3) /\ r.normalized_url = Canon12
    /\ ~ \E r \in urls : r.normalized_url = Canon3

\* C3, as claimed: a new_url for a valid URL that answers while a row of its
\* canonical form is in the store (inserted by itself, found by its dedup
\* lookup, or inserted by a concurrent call after that lookup) answers 200
\* or 201 with that row's slug, never with a server error.
C3_RaceReturnsExisting ==
    NewUrlAnswered =>
        \A r \in urls :
            r.normalized_url = normalize_url(resp.req.body.url).value =>
                resp.status \in {OK, CREATED} /\ resp.slug = r.slug

\* C4, as claimed: a new_url for a valid URL never ends leaving its URL
\* unshortened because another call took its candidate slug: when it
\* answers, a row of its canonical form is in the store.
C4_SlugConflictRetried ==
    (NewUrlAnswered /\ ~normalize_url(resp.req.body.url).raised) =>
        \E r \in urls : r.normalized_url = normalize_url(resp.req.body.url).value

\* The canonical form expected of each raw URL ('' for the host-less one).
ExpectedCanonical(u) ==
    IF u \in {U1, U2} THEN Canon12 ELSE IF u = U3 THEN Canon3 ELSE <<>>

EventsOf(logs, url_id) == Cardinality({i \in 1..Len(logs) : logs[i].url_id = url_id})

\* C6: access_logs grows only in the last step of a redirect_url, by one
\* row for the row its lookup found; a redirect_url reaches that step only
\* through a lookup that found a row and an expiry check that passed; a
\* redirect_url answering 404 or 410 leaves access_logs as it is.
C6_OnlyResolveAppends ==
    [][/\ Len(access_logs') > Len(access_logs) =>
             \E p \in Procs :
                 /\ pc[p] = "redirect_insert"
                 /\ req[p].op = "redirect"
                 /\ resp'.proc = p
                 /\ resp'.status = FOUND
                 /\ access_logs' = Append(access_logs,
                                          [url_id |-> loc[p].tinyurl[1].id,
                                           accessed_at |-> now])
       /\ \A p \in Procs :
             (pc'[p] = "redirect_insert" /\ pc[p] # "redirect_insert") =>
                 /\ pc[p] = "redirect_check"
                 /\ loc[p].tinyurl # None
                 /\ \/ loc[p].tinyurl[1].expires_at = None
                    \/ loc[p].tinyurl[1].expires_at[1] >= now
       /\ \A p \in Procs :
             (pc'[p] = "redirect_check" /\ pc[p] # "redirect_check") =>
                 /\ pc[p] = "redirect"
                 /\ loc'[p].tinyurl # None
                 /\ loc'[p].tinyurl[1] \in urls
                 /\ loc'[p].tinyurl[1].slug = req[p].slug
       /\ (resp'.req.op = "redirect" /\ resp'.status \in {NOT_FOUND, GONE}) =>
             access_logs' = access_logs]_vars

\* C6's case: a url that has been accessed has expired since, and a later
\* redirect_url for it has been answered 410, the log still holding the
\* earlier event only.
C6_Witness ==
    /\ resp.req.op = "redirect"
    /\ resp.status = GONE
    /\ \E r \in urls : r.slug = resp.req.slug /\ EventsOf(access_logs, r.id) = 1
    /\ Len(access_logs) = 1

\* C7, as claimed: the expiry check of redirect_url ends in 410 exactly
\* when expires_at is set and expires_at <= now, the instant of expiry
\* included.
C7_ExpiredAtOrAfter ==
    [][\A p \in Procs :
          (pc[p] = "redirect_check" /\ pc'[p] # "redirect_check") =>
              LET e == loc[p].tinyurl[1].expires_at
              IN  (e # None /\ e[1] <= now) <=> (resp'.proc = p /\ resp'.status = GONE)]_vars

\* C7, amended: the expiry check of redirect_url ends in 410 exactly when
\* expires_at is set and expires_at < now; at the instant of expiry, and
\* when expires_at is absent or later, the redirect goes on.
C7_ExpiredStrictlyAfter ==
    [][\A p \in Procs :
          (pc[p] = "redirect_check" /\ pc'[p] # "redirect_check") =>
              LET e == loc[p].tinyurl[1].expires_at
              IN  /\ (e # None /\ e[1] < now) <=> (resp'.proc = p /\ resp'.status = GONE)
                  /\ (e = None \/ e[1] >= now) <=> pc'[p] = "redirect_insert"]_vars

\* C7's case: a row inserted at its own instant of expiry has been looked
\* up and has passed the expiry check at that same instant.
C7_Witness ==
    \E p \in Procs :
        /\ pc[p] = "redirect_insert"
        /\ loc[p].tinyurl[1].expires_at = Some(now)
        /\ loc[p].tinyurl[1].created_at = now

\* C8: with one request at a time, a delete_url that found its row answers
\* 200 with deleted = true and the row it removed, and the slug is gone; a
\* delete_url, redirect_url or get_url_stats for a slug no row holds
\* answers 404 and changes nothing; and a slug no row holds is held again
\* only through the insert of a new_url.
C8_DeleteThenNotFound ==
    [][/\ \A p \in Procs :
             (pc[p] = "delete_url_delete" /\ pc'[p] = "idle") =>
                 /\ resp'.proc = p
                 /\ resp'.status = OK
                 /\ resp'.deleted = TRUE
                 /\ resp'.tinyurl = loc[p].tinyurl
                 /\ loc[p].tinyurl[1] \in urls
                 /\ loc[p].tinyurl[1].slug = req[p].slug
                 /\ ~ \E r \in urls' : r.slug = req[p].slug
       /\ \A p \in Procs :
             (/\ pc[p] \in {"delete_url", "redirect", "get_url_stats"}
              /\ pc'[p] # pc[p]
              /\ ~ \E r \in urls : r.slug = req[p].slug) =>
                 /\ resp'.proc = p
                 /\ resp'.status = NOT_FOUND
                 /\ urls' = urls
                 /\ access_logs' = access_logs
       /\ \A s \in SlugInputs :
             ((~ \E r \in urls : r.slug = s) /\ (\E r \in urls' : r.slug = s)) =>
                 \E p \in Procs : pc[p] = "new_url_insert" /\ resp'.status = CREATED]_vars

\* C8's case: the first delete_url of a slug has just answered 200 with
\* deleted = true and the removed row, and no row holds the slug any more.
C8_Witness ==
    /\ resp.req.op = "delete_url"
    /\ resp.status = OK
    /\ resp.deleted
    /\ resp.tinyurl # None
    /\ resp.tinyurl[1].slug = resp.req.slug
    /\ ~ \E r \in urls : r.slug = resp.req.slug

\* C9, as claimed: a delete_url that answers 200 reports deleted = true (a
\* call that removed nothing answers 404).
C9_SuccessMeansDeleted ==
    (resp.req.op = "delete_url" /\ resp.status = OK) => resp.deleted

\* C10: a new_url answering 200 or 201 for a raw URL names a slug whose row
\* holds the URL's canonical form; a redirect_url answering 302 redirects
\* to the normalized_url of the row its lookup found and adds exactly one
\* event for that row, which it does whenever the row is still in the table
\* at its last step; and a get_url_stats whose row is still in the table
\* when it reads the log reports as many accesses as redirects were
\* answered for the row.
C10_RoundTrip ==
    [][/\ (resp'.req.op = "new_url" /\ resp'.status \in {OK, CREATED}) =>
             \E r \in urls' :
                 /\ r.slug = resp'.slug
                 /\ r.normalized_url = ExpectedCanonical(resp'.req.body.url)
       /\ \A p \in Procs :
             (pc[p] = "redirect_insert" /\ resp'.proc = p /\ resp'.status = FOUND) =>
                 LET row == loc[p].tinyurl[1]
                 IN  /\ resp'.location = row.normalized_url
                     /\ row.slug = req[p].slug
                     /\ EventsOf(access_logs', row.id) = EventsOf(access_logs, row.id) + 1
                     /\ Len(access_logs') = Len(access_logs) + 1
       /\ \A p \in Procs :
             (/\ pc[p] = "redirect_insert"
              /\ pc'[p] = "idle"
              /\ loc[p].tinyurl[1] \in urls) =>
                 /\ resp'.proc = p
                 /\ resp'.status = FOUND
       /\ \A p \in Procs :
             (/\ pc[p] = "get_url_stats_logs"
              /\ pc'[p] = "idle"
              /\ loc[p].tinyurl[1] \in urls) =>
                 /\ resp'.proc = p
                 /\ resp'.status = OK
                 /\ Len(resp'.accessed_at) = hits[loc[p].tinyurl[1].id]]_vars

\* C10's case: a url has been accessed twice, and the get_url_stats that
\* followed has reported two accesses.
C10_Witness ==
    /\ resp.req.op = "get_url_stats"
    /\ resp.status = OK
    /\ resp.tinyurl # None
    /\ resp.tinyurl[1] \in urls
    /\ hits[resp.tinyurl[1].id] = 2
    /\ Len(resp.accessed_at) = 2

\* C11, as claimed: a slug that a delete_url has removed is never again the
\* slug of a row.
C11_DeletedSlugStaysDeleted ==
    \A r \in urls : r.slug \notin deleted_slugs

\* C12, as claimed: a new_url for a raw URL with no host answers 400, not
\* 500, and leaves both tables as they are.
C12_HostlessIsClientError ==
    [][\A p \in Procs :
          (/\ pc[p] = "new_url"
           /\ pc'[p] # "new_url"
           /\ req[p].body.has_expiry
           /\ ExpectedCanonical(req[p].body.url) = <<>>) =>
              /\ resp'.proc = p
              /\ resp'.status = BAD_REQUEST
              /\ urls' = urls
              /\ access_logs' = access_logs]_vars

\* C13, as claimed: with one request at a time, a new_url that supplies no
\* expiry (the key left out, or null) for a valid URL no row holds goes on
\* to allocate a slug and answers 201 with a row whose expires_at is
\* absent; and the expiry check of a redirect_url for a row without
\* expires_at passes at any time.
C13_ExpiryOptional ==
    [][/\ \A p \in Procs :
             (/\ pc[p] = "new_url"
              /\ pc'[p] # "new_url"
              /\ req[p].body.expiry_date = None
              /\ ExpectedCanonical(req[p].body.url) # <<>>
              /\ ~ \E r \in urls :
                     r.normalized_url = ExpectedCanonical(req[p].body.url)) =>
                 pc'[p] = "new_url_probe"
       /\ \A p \in Procs :
             (/\ pc[p] = "new_url_insert"
              /\ pc'[p] # "new_url_insert"
              /\ req[p].body.expiry_date = None) =>
                 /\ resp'.proc = p
                 /\ resp'.status = CREATED
                 /\ \E r \in urls' \ urls :
                       r.slug = resp'.slug /\ r.expires_at = None
       /\ \A p \in Procs :
             (/\ pc[p] = "redirect_check"
              /\ pc'[p] # "redirect_check"
              /\ loc[p].tinyurl[1].expires_at = None) =>
                 pc'[p] = "redirect_insert"]_vars

\* The parts a raw URL of the normalizer's inputs was built from.
PartsOf(url) == CHOOSE c \in UrlParts : BuildUrl(c) = url

\* How often a pair occurs in a query.
PairCount(q, pair) == Cardinality({i \in 1..Len(q) : q[i] = pair})

\* Two URLs differ at most in query-parameter order, host letter case, a
\* left-out http scheme and a left-out "/" path.
SameUpToForm(c1, c2) ==
    /\ (IF c1.scheme = <<>> THEN <<"h","t","t","p">> ELSE c1.scheme)
         = (IF c2.scheme = <<>> THEN <<"h","t","t","p">> ELSE c2.scheme)
    /\ (c1.host = c2.host \/ {c1.host, c2.host} = {<<"a">>, <<"A">>})
    /\ (IF c1.path = <<>> THEN <<"/">> ELSE c1.path)
         = (IF c2.path = <<>> THEN <<"/">> ELSE c2.path)
    /\ Len(c1.query) = Len(c2.query)
    /\ \A pair \in {PairX1, PairX2, PairY2} :
          PairCount(c1.query, pair) = PairCount(c2.query, pair)

\* C14: normalize_url raises for none of the URLs built from the parts,
\* and gives two of them the same canonical string exactly when they
\* differ at most in query-parameter order, host letter case, a left-out
\* http scheme and a left-out "/" path; URLs that differ in path, scheme or
\* a query value get different canonical strings.
C14_NormalizeEquivalence ==
    /\ \A p \in Procs : pc[p] # "normalize_raised"
    /\ (\A p \in Procs : pc[p] = "normalized") =>
          ((loc["p1"].normalized_url = loc["p2"].normalized_url)
             <=> SameUpToForm(PartsOf(req["p1"].body.url), PartsOf(req["p2"].body.url)))

\* C14's case: "A?y=2&x=1" and "http://a/?x=1&y=2", which differ in all
\* four ways at once, have both been normalized, to the same string.
C14_Witness ==
    /\ \A p \in Procs : pc[p] = "normalized"
    /\ req["p1"].body.url = <<"A","?","y","=","2","&","x","=","1">>
    /\ req["p2"].body.url =
          <<"h","t","t","p",":","/","/","a","/","?","x","=","1","&","y","=","2">>
    /\ loc["p1"].normalized_url = req["p2"].body.url
    /\ loc["p1"].normalized_url = loc["p2"].normalized_url

\* Every slug there is.
SlugSpace == [1..SlugLength -> {SlugSymbols[i] : i \in 1..Len(SlugSymbols)}]

\* The probe loop, run from candidate c against rows that stay as they
\* are, finds a free slug within n reseedings.
RECURSIVE ReachesFree(_, _, _, _)
ReachesFree(rows, url, c, n) ==
    IF ~ \E r \in rows : r.slug = c THEN TRUE
    ELSE IF n = 0 THEN FALSE
    ELSE ReachesFree(rows, url, generate_random_slug(url \o c), n - 1)

C16_RowsNeverMutated ==
    [][/\ \A r \in urls : \A r2 \in urls' : r2.id = r.id => r2 = r
       /\ \A r2 \in urls' \ urls : r2.id = next_id /\ next_id' = next_id + 1
       /\ \A r \in urls : r.id < next_id
       /\ \/ /\ Len(access_logs') >= Len(access_logs)
             /\ SubSeq(access_logs', 1, Len(access_logs)) = access_logs
          \/ /\ urls' # urls
             /\ urls' \subseteq urls
             /\ access_logs' =
                   SelectSeq(access_logs, LAMBDA l : \E r \in urls' : r.id = l.url_id)]_vars

\* C16's case: the row of U3, inserted without expires_at and accessed
\* since, has just been found by a duplicate new_url that supplied an
\* expiry, and still has no expires_at.
C16_Witness ==
    /\ NewUrlAnswered
    /\ resp.req.body.url = U3
    /\ resp.req.body.expiry_date # None
    /\ resp.status = OK
    /\ \E r \in urls :
          /\ r.slug = resp.slug
          /\ r.normalized_url = Canon3
          /\ r.expires_at = None
          /\ hits[r.id] >= 1
          /\ EventsOf(access_logs, r.id) >= 1

\* C17: under every interleaving of redirect_url and delete_url, every row
\* of access_logs refers to a row that is in urls.
C17_NoEventForMissingRow ==
    \A i \in 1..Len(access_logs) : \E r \in urls : r.id = access_logs[i].url_id

\* C17's case: a redirect_url looked its row up, a delete_url removed the
\* row, and the redirect's insert has been refused: it answered 500 and
\* left no access_logs row.
C17_Witness ==
    /\ resp.req.op = "redirect"
    /\ resp.status = INTERNAL_SERVER_ERROR
    /\ resp.req.slug \in deleted_slugs
    /\ ~ \E r \in urls : r.slug = resp.req.slug
    /\ access_logs = <<>>

=============================================================================
